---------------------------- MODULE Spec2Model ----------------------------
(***************************************************************************)
(* Model of src/src/file.rs (dsc): the streaming digest, the two filename  *)
(* helpers and FileAction::execute with its move / delete / nothing paths. *)
(*                                                                         *)
(* Text is modelled as sequences of one-character strings, a path as the   *)
(* record [abs, comps] of its components, and the filesystem as the sets   *)
(* of absolute directory and file paths plus the working directory.        *)
(***************************************************************************)
EXTENDS Integers, Sequences, FiniteSets, TLC

VARIABLES
    \* splice_name
    fname, suffix, spliced, sp_pc,
    \* filename_from_header
    header_value, hd_out, hd_pc,
    \* digest
    reader, buffer, sh, n, fed, reads, d_pc, d_result,
    \* FileAction::execute
    dirs, files, calls, fs0, trace

spliceVars == <<fname, suffix, spliced, sp_pc>>
headerVars == <<header_value, hd_out, hd_pc>>
digestVars == <<reader, buffer, sh, n, fed, reads, d_pc, d_result>>
fileVars   == <<dirs, files, calls, fs0, trace>>
vars       == <<spliceVars, headerVars, digestVars, fileVars>>

(***************************************************************************)
(* Option<T>                                                               *)
(***************************************************************************)
None    == [some |-> FALSE]
Some(v) == [some |-> TRUE, val |-> v]

(***************************************************************************)
(* Bounds of the model                                                     *)
(***************************************************************************)
MaxNameLen == 5
MaxParts   == 5
MaxChunks  == 2

(***************************************************************************)
(* Text helpers                                                            *)
(***************************************************************************)
Last(s)  == s[Len(s)]
Front(s) == SubSeq(s, 1, Len(s) - 1)

EndsWith(s, pat) ==
    /\ Len(pat) <= Len(s)
    /\ SubSeq(s, Len(s) - Len(pat) + 1, Len(s)) = pat

RECURSIVE StringsUpTo(_, _)
StringsUpTo(alphabet, k) ==
    IF k = 0 THEN {<<>>}
    ELSE LET shorter == StringsUpTo(alphabet, k - 1)
         IN  shorter \cup {Append(s, c) : s \in shorter, c \in alphabet}

\* str::split('/') followed by dropping the empty pieces, as Path::components does.
RECURSIVE SplitSep(_, _)
SplitSep(s, cur) ==
    IF s = <<>> THEN (IF cur = <<>> THEN <<>> ELSE <<cur>>)
    ELSE IF Head(s) = "/"
         THEN (IF cur = <<>> THEN <<>> ELSE <<cur>>) \o SplitSep(Tail(s), <<>>)
         ELSE SplitSep(Tail(s), Append(cur, Head(s)))

RECURSIVE DropCurDir(_)
DropCurDir(parts) ==
    IF parts = <<>> THEN <<>>
    ELSE IF Head(parts) = <<".">> THEN DropCurDir(Tail(parts))
         ELSE <<Head(parts)>> \o DropCurDir(Tail(parts))

\* Path::file_name: the last component when it is a normal one.
PathFileName(s) ==
    LET normals == DropCurDir(SplitSep(s, <<>>))
    IN  IF normals = <<>> THEN None
        ELSE IF Last(normals) = <<".", ".">> THEN None
        ELSE Some(Last(normals))

LastDot(s) ==
    IF \E i \in 1..Len(s) : s[i] = "."
    THEN CHOOSE i \in 1..Len(s) : s[i] = "." /\ \A j \in (i+1)..Len(s) : s[j] # "."
    ELSE 0

\* Path::extension: file_name, split at its last dot; none when there is no dot
\* or nothing stands before the dot.
PathExtension(s) ==
    LET fn == PathFileName(s)
    IN  IF ~fn.some THEN None
        ELSE LET d == LastDot(fn.val)
             IN  IF d <= 1 THEN None
                 ELSE Some(SubSeq(fn.val, d + 1, Len(fn.val)))

\* str::trim_end_matches(pat): removes every repetition of pat at the end.
RECURSIVE TrimEndMatches(_, _)
TrimEndMatches(s, pat) ==
    IF pat # <<>> /\ EndsWith(s, pat)
    THEN TrimEndMatches(SubSeq(s, 1, Len(s) - Len(pat)), pat)
    ELSE s

\* chars().next_back() followed by as_str(): the text without its last char.
NextBack(s) == IF s = <<>> THEN s ELSE Front(s)

Digit(d) == <<"0", "1", "2", "3", "4", "5", "6", "7", "8", "9">>[d + 1]

RECURSIVE NatToString(_)
NatToString(k) ==
    IF k < 10 THEN <<Digit(k)>>
    ELSE Append(NatToString(k \div 10), Digit(k % 10))

\* Display of an i32.
I32ToString(k) == IF k < 0 THEN <<"-">> \o NatToString(-k) ELSE NatToString(k)

(***************************************************************************)
(* splice_name                                                             *)
(***************************************************************************)
SpliceNameNoNextBack(name, suf) ==
    LET ext == PathExtension(name)
    IN  IF ext.some
        THEN TrimEndMatches(name, ext.val)
                 \o <<"_">> \o I32ToString(suf) \o <<".">> \o ext.val
        ELSE name \o <<"_">> \o I32ToString(suf)

splice_name(name, suf) ==
    LET ext == PathExtension(name)
    IN  IF ext.some
        THEN LET base == NextBack(TrimEndMatches(name, ext.val))
             IN  base \o <<"_">> \o I32ToString(suf) \o <<".">> \o ext.val
        ELSE name \o <<"_">> \o I32ToString(suf)

NameAlphabet == {"a", "b", ".", "/"}
Names        == StringsUpTo(NameAlphabet, MaxNameLen)
Suffixes     == {-12, 0, 2, 10}

(***************************************************************************)
(* filename_from_header                                                    *)
(***************************************************************************)
Needle == <<"f", "i", "l", "e", "n", "a", "m", "e", "=">>

MatchAt(s, pat, i) ==
    /\ i + Len(pat) - 1 <= Len(s)
    /\ SubSeq(s, i, i + Len(pat) - 1) = pat

\* str::find: the 0-based index of the first match.
StrFind(s, pat) ==
    IF \E i \in 1..(Len(s) + 1) : MatchAt(s, pat, i)
    THEN Some((CHOOSE i \in 1..(Len(s) + 1) :
                  /\ MatchAt(s, pat, i)
                  /\ \A j \in 1..(i - 1) : ~MatchAt(s, pat, j)) - 1)
    ELSE None

StrRFind(s, pat) ==
    IF \E i \in 1..(Len(s) + 1) : MatchAt(s, pat, i)
    THEN Some((CHOOSE i \in 1..(Len(s) + 1) :
                  /\ MatchAt(s, pat, i)
                  /\ \A j \in (i + 1)..(Len(s) + 1) : ~MatchAt(s, pat, j)) - 1)
    ELSE None

RECURSIVE TrimStartChar(_, _)
TrimStartChar(s, c) ==
    IF s # <<>> /\ Head(s) = c THEN TrimStartChar(Tail(s), c) ELSE s

RECURSIVE TrimEndChar(_, _)
TrimEndChar(s, c) ==
    IF s # <<>> /\ Last(s) = c THEN TrimEndChar(Front(s), c) ELSE s

\* str::trim_matches(char)
TrimMatches(s, c) == TrimEndChar(TrimStartChar(s, c), c)

FilenameFromHeaderLast(value) ==
    LET index == StrRFind(value, Needle)
    IN  IF index.some
        THEN Some(TrimMatches(SubSeq(value, 9 + index.val + 1, Len(value)), "\""))
        ELSE None

filename_from_header(value) ==
    LET index == StrFind(value, Needle)
    IN  IF index.some
        THEN Some(TrimMatches(SubSeq(value, 9 + index.val + 1, Len(value)), "\""))
        ELSE None

HeaderPieces ==
    { Needle,
      <<"F", "i", "l", "e", "n", "a", "m", "e", "=">>,
      <<"f", "i", "l", "e">>,
      <<"\"">>,
      <<"t">>,
      <<";", " ">> }

RECURSIVE Concats(_, _)
Concats(pieces, k) ==
    IF k = 0 THEN {<<>>}
    ELSE LET shorter == Concats(pieces, k - 1)
         IN  shorter \cup {s \o p : s \in shorter, p \in pieces}

HeaderValues == Concats(HeaderPieces, MaxParts)


(***************************************************************************)
(* digest                                                                  *)
(***************************************************************************)
BUFFER_SIZE == 1024

Min(a, b) == IF a < b THEN a ELSE b

\* The hasher D: a 15-bit polynomial hash stands for the Digest implementation.
HashModulus == 2^15
HashBase    == 30 + 1

RECURSIVE PowMod(_, _)
PowMod(b, e) ==
    IF e = 0 THEN 1
    ELSE LET half == PowMod(b, e \div 2)
             sq   == (half * half) % HashModulus
         IN  IF e % 2 = 0 THEN sq ELSE (sq * b) % HashModulus

RECURSIVE Poly(_, _, _)
Poly(s, lo, hi) ==
    IF lo > hi THEN 0
    ELSE IF lo = hi THEN s[lo] % HashModulus
    ELSE LET mid == (lo + hi) \div 2
         IN  (Poly(s, lo, mid) * PowMod(HashBase, hi - mid) + Poly(s, mid + 1, hi))
                 % HashModulus

DDefault == 0

\* Digest::update
DUpdate(h, bytes) ==
    (h * PowMod(HashBase, Len(bytes)) + Poly(bytes, 1, Len(bytes))) % HashModulus

\* Digest::finalize: the state as two bytes, big endian.
DFinalize(h) == <<h \div 256, h % 256>>

HexDigit(d) ==
    <<"0", "1", "2", "3", "4", "5", "6", "7", "8", "9", "a", "b", "c", "d", "e", "f">>[d + 1]

RECURSIVE HexEncode(_)
HexEncode(bytes) ==
    IF bytes = <<>> THEN <<>>
    ELSE <<HexDigit(Head(bytes) \div 16), HexDigit(Head(bytes) % 16)>>
             \o HexEncode(Tail(bytes))

\* io::Read::read on a source holding `data` from position `pos`: a "full"
\* source fills the buffer unless the stream ends; a "short" source hands out
\* at most ShortRead bytes per call.
ShortRead == BUFFER_SIZE - 24

ReadLen(r) ==
    LET remaining == Len(r.data) - r.pos
    IN  IF r.kind = "full" THEN Min(BUFFER_SIZE, remaining)
        ELSE Min(ShortRead, remaining)

ReadInto(r, buf, k) ==
    [i \in 1..BUFFER_SIZE |-> IF i <= k THEN r.data[r.pos + i] ELSE buf[i]]

BreakLoopInclusive(k) == k = 0 \/ k <= BUFFER_SIZE

\* if n == 0 || n < BUFFER_SIZE { break; }
BreakLoop(k) == k = 0 \/ k < BUFFER_SIZE

\* One round of the loop: read, update, and the return when the loop breaks.
DigestRound ==
    /\ d_pc = "loop"
    /\ LET k == ReadLen(reader)
       IN  /\ n' = k
           /\ buffer' = ReadInto(reader, buffer, k)
           /\ reader' = [reader EXCEPT !.pos = @ + k]
           /\ reads' = reads + 1
           /\ sh' = DUpdate(sh, SubSeq(buffer', 1, k))
           /\ fed' = fed \o SubSeq(buffer', 1, k)
           /\ IF BreakLoop(k)
              THEN /\ d_pc' = "done"
                   /\ d_result' = [ok |-> TRUE, hex |-> HexEncode(DFinalize(sh'))]
              ELSE /\ d_pc' = "loop"
                   /\ d_result' = d_result
    /\ UNCHANGED <<spliceVars, headerVars, fileVars>>

\* Err(_) => return Err(io::Error::new(io::ErrorKind::Other, "Could not read file"))
DigestReadErr ==
    /\ d_pc = "loop"
    /\ d_pc' = "done"
    /\ d_result' = [ok |-> FALSE, err |-> "Could not read file"]
    /\ reads' = reads + 1
    /\ UNCHANGED <<reader, buffer, sh, n, fed>>
    /\ UNCHANGED <<spliceVars, headerVars, fileVars>>

StreamByte(seed, i) == (i * seed) % 251

StreamLens == {c * BUFFER_SIZE + d : c \in 0..MaxChunks, d \in {0, 1, BUFFER_SIZE - 1}}
Streams    == {[i \in 1..len |-> StreamByte(seed, i)] : len \in StreamLens, seed \in {3, 7}}

DigestInit ==
    /\ reader \in [data : Streams, pos : {0}, kind : {"full", "short"}]
    /\ buffer = [i \in 1..BUFFER_SIZE |-> 0]
    /\ sh = DDefault
    /\ n = 0
    /\ fed = <<>>
    /\ reads = 0
    /\ d_pc = "loop"
    /\ d_result = None

DigestIdle ==
    /\ reader = [data |-> <<>>, pos |-> 0, kind |-> "full"]
    /\ buffer = <<>>
    /\ sh = DDefault
    /\ n = 0
    /\ fed = <<>>
    /\ reads = 0
    /\ d_pc = "off"
    /\ d_result = None

(***************************************************************************)
(* Paths (std::path) and the filesystem (std::fs)                          *)
(***************************************************************************)
AbsPath(comps) == [abs |-> TRUE, comps |-> comps]
RelPath(comps) == [abs |-> FALSE, comps |-> comps]

\* The working directory of the process.
Cwd == <<"w">>

IsPrefix(s, t) == Len(s) <= Len(t) /\ SubSeq(t, 1, Len(s)) = s

Prefixes(s) == {SubSeq(s, 1, k) : k \in 0..Len(s)}

\* Path::parent: none for "/" and for the empty path; Some("") for "name".
Parent(p) == IF p.comps = <<>> THEN None ELSE Some([p EXCEPT !.comps = Front(@)])

\* Path::file_name
FileName(p) == IF p.comps = <<>> THEN None ELSE Some(RelPath(<<Last(p.comps)>>))

\* Path::strip_prefix compares components, the root directory being one.
StripPrefix(p, base) ==
    IF base.abs = p.abs /\ IsPrefix(base.comps, p.comps)
    THEN Some(RelPath(SubSeq(p.comps, Len(base.comps) + 1, Len(p.comps))))
    ELSE IF ~base.abs /\ base.comps = <<>> THEN Some(p)
    ELSE None

\* Path::join: an absolute argument replaces the receiver.
Join(p, q) == IF q.abs THEN q ELSE [p EXCEPT !.comps = @ \o q.comps]

\* The empty path names nothing: every call on it fails with ENOENT.
IsEmptyPath(p) == ~p.abs /\ p.comps = <<>>

Resolve(p) == IF p.abs THEN p.comps ELSE Cwd \o p.comps

\* Why a lookup of p fails before its last component is reached, or "" when
\* it does not.
LookupErr(p) ==
    IF IsEmptyPath(p) THEN "ENOENT"
    ELSE IF ~p.abs /\ Cwd \notin dirs THEN "ENOENT"
    ELSE IF \E a \in Prefixes(Front(Resolve(p))) : a \in files THEN "ENOTDIR"
    ELSE IF Resolve(p) # <<>> /\ Front(Resolve(p)) \notin dirs THEN "ENOENT"
    ELSE ""

Children(d) == {e \in dirs \cup files : Len(e) = Len(d) + 1 /\ IsPrefix(d, e)}

\* Path::exists: false on every error.
PathExists(p) == LookupErr(p) = "" /\ Resolve(p) \in dirs \cup files

FsOk(d, f)  == [ok |-> TRUE, err |-> "", dirs |-> d, files |-> f]
FsErr(e)    == [ok |-> FALSE, err |-> e, dirs |-> dirs, files |-> files]

\* std::fs::create_dir_all: Ok on the empty path and on an existing directory,
\* else every missing ancestor and the directory are made.
FsCreateDirAll(p) ==
    IF IsEmptyPath(p) THEN FsOk(dirs, files)
    ELSE IF ~p.abs /\ Cwd \notin dirs THEN FsErr("ENOENT")
    ELSE IF \E a \in Prefixes(Resolve(p)) : a \in files THEN FsErr("ENOTDIR")
    ELSE FsOk(dirs \cup Prefixes(Resolve(p)), files)

Rebase(e, from, to) == to \o SubSeq(e, Len(from) + 1, Len(e))

\* std::fs::rename (rename(2))
FsRename(src, dst) ==
    LET s == Resolve(src)
        d == Resolve(dst)
    IN  IF LookupErr(src) # "" THEN FsErr(LookupErr(src))
        ELSE IF s \notin dirs \cup files THEN FsErr("ENOENT")
        ELSE IF LookupErr(dst) # "" THEN FsErr(LookupErr(dst))
        ELSE IF s = d THEN FsOk(dirs, files)
        ELSE IF s \in files
        THEN IF d \in dirs THEN FsErr("EISDIR")
             ELSE FsOk(dirs, (files \ {s}) \cup {d})
        ELSE IF d \in files THEN FsErr("ENOTDIR")
        ELSE IF IsPrefix(s, d) THEN FsErr("EINVAL")
        ELSE IF d \in dirs /\ Children(d) # {} THEN FsErr("ENOTEMPTY")
        ELSE FsOk({e \in dirs : ~IsPrefix(s, e)}
                      \cup {Rebase(e, s, d) : e \in {x \in dirs : IsPrefix(s, x)}},
                  {e \in files : ~IsPrefix(s, e)}
                      \cup {Rebase(e, s, d) : e \in {x \in files : IsPrefix(s, x)}})

\* std::fs::read_dir(p)?.next().is_none(): `empty` tells whether no entry came.
FsReadDir(p) ==
    IF LookupErr(p) # "" THEN [ok |-> FALSE, err |-> LookupErr(p), empty |-> FALSE]
    ELSE IF Resolve(p) \in files THEN [ok |-> FALSE, err |-> "ENOTDIR", empty |-> FALSE]
    ELSE IF Resolve(p) \notin dirs THEN [ok |-> FALSE, err |-> "ENOENT", empty |-> FALSE]
    ELSE [ok |-> TRUE, err |-> "", empty |-> Children(Resolve(p)) = {}]

\* std::fs::remove_dir (rmdir(2))
FsRemoveDir(p) ==
    IF LookupErr(p) # "" THEN FsErr(LookupErr(p))
    ELSE IF Resolve(p) \in files THEN FsErr("ENOTDIR")
    ELSE IF Resolve(p) \notin dirs THEN FsErr("ENOENT")
    ELSE IF Resolve(p) = <<>> THEN FsErr("EBUSY")
    ELSE IF Children(Resolve(p)) # {} THEN FsErr("ENOTEMPTY")
    ELSE FsOk(dirs \ {Resolve(p)}, files)

\* std::fs::remove_file (unlink(2))
FsRemoveFile(p) ==
    IF LookupErr(p) # "" THEN FsErr(LookupErr(p))
    ELSE IF Resolve(p) \in dirs THEN FsErr("EISDIR")
    ELSE IF Resolve(p) \notin files THEN FsErr("ENOENT")
    ELSE FsOk(dirs, files \ {Resolve(p)})

(***************************************************************************)
(* FileAction::execute                                                     *)
(***************************************************************************)
NoResult    == [kind |-> "none"]
Moved(p)    == [kind |-> "Moved", path |-> p]
Deleted(p)  == [kind |-> "Deleted", path |-> p]
Nothing     == [kind |-> "Nothing"]
Err(e)      == [kind |-> "Err", err |-> e]

Procs == DOMAIN calls

Snapshot(d, f) == [dirs |-> d, files |-> f]

Called(i, op, args, ok, err, d, f) ==
    [proc |-> i, op |-> op, args |-> args, ok |-> ok, err |-> err,
     after |-> Snapshot(d, f)]

\* A filesystem call that came back Ok: its effect, and the call goes on at `pc`.
Proceed(i, op, args, d, f, pc) ==
    /\ dirs' = d
    /\ files' = f
    /\ calls' = [calls EXCEPT ![i].pc = pc]
    /\ trace' = Append(trace, Called(i, op, args, TRUE, "", d, f))

\* A filesystem call that came back Ok, after which the function returns.
Return(i, op, args, d, f, result) ==
    /\ dirs' = d
    /\ files' = f
    /\ calls' = [calls EXCEPT ![i].pc = "done", ![i].result = result]
    /\ trace' = Append(trace, Called(i, op, args, TRUE, "", d, f))

\* The `?` on an Err: the error is the function's result.
Propagate(i, op, args, e) ==
    /\ calls' = [calls EXCEPT ![i].pc = "done", ![i].result = Err(e)]
    /\ trace' = Append(trace, Called(i, op, args, FALSE, e, dirs, files))
    /\ UNCHANGED <<dirs, files>>

\* The error of a call: the one the filesystem state gives, or one the
\* environment gives (permissions, devices).
Errors(r) == (IF r.ok THEN {} ELSE {r.err}) \cup {"EACCES"}

DispatchDeleteFirst(action) ==
    IF action.delete THEN "delete"
    ELSE IF action.move_to.some THEN "move"
    ELSE "nothing"

DispatchNoNothing(action) ==
    IF action.move_to.some THEN "move" ELSE "delete"

\* match &self.move_to { Some(target) => .., None => if self.delete {..} else {..} }
Dispatch(action) ==
    IF action.move_to.some THEN "move"
    ELSE IF action.delete THEN "delete"
    ELSE "nothing"

\* let target_file = match root { Some(r) => .., None => .. }
TargetFile(file, root, target) ==
    IF root.some
    THEN LET part == StripPrefix(file, root.val)
         IN  IF part.some THEN Some(Join(target, part.val)) ELSE None
    ELSE LET name == FileName(file)
         IN  IF name.some THEN Some(Join(target, name.val)) ELSE None

\* execute up to its first filesystem call.
execute(i) ==
    LET c == calls[i]
    IN  /\ c.pc = "start"
        /\ CASE Dispatch(c.action) = "move" ->
                    LET t == TargetFile(c.file, c.root, c.action.move_to.val)
                    IN  IF ~t.some
                        THEN calls' = [calls EXCEPT ![i].pc = "panicked"]
                        ELSE calls' = [calls EXCEPT
                                 ![i].target_file = t.val,
                                 ![i].pc = IF Parent(t.val).some THEN "exists"
                                           ELSE "rename"]
             [] Dispatch(c.action) = "delete" ->
                    calls' = [calls EXCEPT ![i].pc = "remove_file"]
             [] OTHER ->
                    calls' = [calls EXCEPT ![i].pc = "done", ![i].result = Nothing]
        /\ UNCHANGED <<dirs, files, trace>>
        /\ UNCHANGED <<spliceVars, headerVars, digestVars, fs0>>

\* if !parent.exists(): an error of the lookup counts as absence.
parent_exists(i) ==
    LET c      == calls[i]
        parent == Parent(c.target_file).val
    IN  /\ c.pc = "exists"
        /\ \E found \in {PathExists(parent), FALSE} :
               Proceed(i, "exists", <<parent>>, dirs, files,
                       IF found THEN "rename" ELSE "create_dir_all")
        /\ UNCHANGED <<spliceVars, headerVars, digestVars, fs0>>

\* std::fs::create_dir_all(parent)?
create_dir_all(i) ==
    LET c      == calls[i]
        parent == Parent(c.target_file).val
        r      == FsCreateDirAll(parent)
    IN  /\ c.pc = "create_dir_all"
        /\ \/ /\ r.ok
              /\ Proceed(i, "create_dir_all", <<parent>>, r.dirs, r.files, "rename")
           \/ \E e \in Errors(r) : Propagate(i, "create_dir_all", <<parent>>, e)
        /\ UNCHANGED <<spliceVars, headerVars, digestVars, fs0>>

\* std::fs::rename(file, &target_file)?
rename(i) ==
    LET c == calls[i]
        r == FsRename(c.file, c.target_file)
    IN  /\ c.pc = "rename"
        /\ \/ /\ r.ok
              /\ IF Parent(c.file).some
                 THEN Proceed(i, "rename", <<c.file, c.target_file>>, r.dirs, r.files,
                              "read_dir")
                 ELSE Return(i, "rename", <<c.file, c.target_file>>, r.dirs, r.files,
                             Moved(c.target_file))
           \/ \E e \in Errors(r) :
                  Propagate(i, "rename", <<c.file, c.target_file>>, e)
        /\ UNCHANGED <<spliceVars, headerVars, digestVars, fs0>>

read_dir_swallow(i) ==
    LET c      == calls[i]
        parent == Parent(c.file).val
        r      == FsReadDir(parent)
    IN  /\ c.pc = "read_dir"
        /\ \/ /\ r.ok
              /\ IF r.empty
                 THEN Proceed(i, "read_dir", <<parent>>, dirs, files, "remove_dir")
                 ELSE Return(i, "read_dir", <<parent>>, dirs, files,
                             Moved(c.target_file))
           \/ \E e \in Errors(r) :
                  /\ calls' = [calls EXCEPT ![i].pc = "done",
                                            ![i].result = Moved(c.target_file)]
                  /\ trace' = Append(trace,
                         Called(i, "read_dir", <<parent>>, FALSE, e, dirs, files))
                  /\ UNCHANGED <<dirs, files>>
        /\ UNCHANGED <<spliceVars, headerVars, digestVars, fs0>>

\* if std::fs::read_dir(parent)?.next().is_none()
read_dir(i) ==
    LET c      == calls[i]
        parent == Parent(c.file).val
        r      == FsReadDir(parent)
    IN  /\ c.pc = "read_dir"
        /\ \/ /\ r.ok
              /\ IF r.empty
                 THEN Proceed(i, "read_dir", <<parent>>, dirs, files, "remove_dir")
                 ELSE Return(i, "read_dir", <<parent>>, dirs, files,
                             Moved(c.target_file))
           \/ \E e \in Errors(r) : Propagate(i, "read_dir", <<parent>>, e)
        /\ UNCHANGED <<spliceVars, headerVars, digestVars, fs0>>

\* std::fs::remove_dir(parent)?; Ok(target_file)
remove_dir(i) ==
    LET c      == calls[i]
        parent == Parent(c.file).val
        r      == FsRemoveDir(parent)
    IN  /\ c.pc = "remove_dir"
        /\ \/ /\ r.ok
              /\ Return(i, "remove_dir", <<parent>>, r.dirs, r.files,
                        Moved(c.target_file))
           \/ \E e \in Errors(r) : Propagate(i, "remove_dir", <<parent>>, e)
        /\ UNCHANGED <<spliceVars, headerVars, digestVars, fs0>>

delete_file_cleanup(i) ==
    LET c == calls[i]
        r == FsRemoveFile(c.file)
        p == Front(Resolve(c.file))
    IN  /\ c.pc = "remove_file"
        /\ \/ /\ r.ok
              /\ Return(i, "remove_file", <<c.file>>,
                        IF \E e \in r.dirs \cup r.files : Len(e) > Len(p) /\ IsPrefix(p, e)
                        THEN r.dirs ELSE r.dirs \ {p},
                        r.files, Deleted(c.file))
           \/ \E e \in Errors(r) : Propagate(i, "remove_file", <<c.file>>, e)
        /\ UNCHANGED <<spliceVars, headerVars, digestVars, fs0>>

\* Self::delete_file(&file).map(|_r| FileActionResult::Deleted(file.clone()))
delete_file(i) ==
    LET c == calls[i]
        r == FsRemoveFile(c.file)
    IN  /\ c.pc = "remove_file"
        /\ \/ /\ r.ok
              /\ Return(i, "remove_file", <<c.file>>, r.dirs, r.files, Deleted(c.file))
           \/ \E e \in Errors(r) : Propagate(i, "remove_file", <<c.file>>, e)
        /\ UNCHANGED <<spliceVars, headerVars, digestVars, fs0>>

(***************************************************************************)
(* The filesystems and the calls the model starts from                     *)
(***************************************************************************)
WellFormed(d, f) ==
    /\ d \cap f = {}
    /\ \A e \in d \cup f : e # <<>> => Front(e) \in d

BaseDirs == {<<>>, Cwd}

Trees(optDirs, optFiles) ==
    {t \in [dirs : {BaseDirs \cup d : d \in SUBSET optDirs}, files : SUBSET optFiles] :
        WellFormed(t.dirs, t.files)}

NewCall(file, root, action) ==
    [file |-> file, root |-> root, action |-> action,
     pc |-> "start", target_file |-> RelPath(<<>>), result |-> NoResult]

SeqDirs    == {<<"w", "a">>, <<"o">>, <<"o", "a">>, <<"o", "f">>}
SeqFiles   == {<<"w", "a", "f">>, <<"w", "a", "g">>, <<"w", "f">>, <<"o">>, <<"o", "f">>}
SeqPaths   == {AbsPath(<<"w", "a", "f">>), RelPath(<<"a", "f">>),
               AbsPath(<<"w", "f">>), RelPath(<<"f">>)}
SeqRoots   == {None, Some(AbsPath(<<"w">>)), Some(AbsPath(<<"w", "a">>)),
               Some(RelPath(<<"a">>)), Some(RelPath(<<>>))}
SeqTargets == {None, Some(AbsPath(<<"o">>)), Some(RelPath(<<"o">>)),
               Some(AbsPath(<<"w">>)), Some(RelPath(<<>>))}

FileInit ==
    /\ \E t \in Trees(SeqDirs, SeqFiles) :
           /\ dirs = t.dirs
           /\ files = t.files
           /\ fs0 = Snapshot(t.dirs, t.files)
    /\ \E file \in SeqPaths, root \in SeqRoots, move_to \in SeqTargets,
          delete \in BOOLEAN :
           calls = <<NewCall(file, root, [delete |-> delete, move_to |-> move_to])>>
    /\ trace = <<>>

\* Two calls that move two files of one directory.
ConcDirs  == {<<"w", "a">>, <<"o">>}
ConcFiles == {<<"w", "a", "f">>, <<"w", "a", "g">>, <<"w", "a", "h">>,
              <<"w", "f">>, <<"w", "g">>}
ConcPairs ==
    { <<AbsPath(<<"w", "a", "f">>), AbsPath(<<"w", "a", "g">>)>>,
      <<RelPath(<<"a", "f">>), RelPath(<<"a", "g">>)>>,
      <<RelPath(<<"f">>), RelPath(<<"g">>)>>,
      <<AbsPath(<<"w", "f">>), AbsPath(<<"w", "g">>)>> }
ConcRoots   == {None, Some(AbsPath(<<"w">>)), Some(RelPath(<<>>))}
ConcTargets == {Some(AbsPath(<<"o">>)), Some(RelPath(<<"o">>))}

ConcInit ==
    /\ \E t \in Trees(ConcDirs, ConcFiles) :
           /\ dirs = t.dirs
           /\ files = t.files
           /\ fs0 = Snapshot(t.dirs, t.files)
    /\ \E pair \in ConcPairs, root \in ConcRoots, move_to \in ConcTargets :
           /\ Resolve(pair[1]) \in files
           /\ Resolve(pair[2]) \in files
           /\ root.some => /\ StripPrefix(pair[1], root.val).some
                           /\ StripPrefix(pair[2], root.val).some
           /\ calls = [i \in 1..2 |->
                          NewCall(pair[i], root, [delete |-> FALSE, move_to |-> move_to])]
    /\ trace = <<>>

(***************************************************************************)
(* The calls of the two filename helpers                                   *)
(***************************************************************************)
SpliceInit ==
    /\ fname \in Names
    /\ suffix \in Suffixes
    /\ spliced = <<>>
    /\ sp_pc = "call"

SpliceIdle ==
    /\ fname = <<>>
    /\ suffix = 0
    /\ spliced = <<>>
    /\ sp_pc = "off"

SpliceCall ==
    /\ sp_pc = "call"
    /\ spliced' = splice_name(fname, suffix)
    /\ sp_pc' = "done"
    /\ UNCHANGED <<fname, suffix, headerVars, digestVars, fileVars>>

HeaderInit ==
    /\ header_value \in HeaderValues
    /\ hd_out = None
    /\ hd_pc = "call"

HeaderIdle ==
    /\ header_value = <<>>
    /\ hd_out = None
    /\ hd_pc = "off"

HeaderCall ==
    /\ hd_pc = "call"
    /\ hd_out' = filename_from_header(header_value)
    /\ hd_pc' = "done"
    /\ UNCHANGED <<header_value, spliceVars, digestVars, fileVars>>

FileIdle ==
    /\ dirs = {}
    /\ files = {}
    /\ calls = <<>>
    /\ fs0 = [dirs |-> {}, files |-> {}]
    /\ trace = <<>>

InitSplice == SpliceInit /\ HeaderIdle /\ DigestIdle /\ FileIdle
NextSplice == SpliceCall
SpecSplice == InitSplice /\ [][NextSplice]_vars

InitHeader == SpliceIdle /\ HeaderInit /\ DigestIdle /\ FileIdle
NextHeader == HeaderCall
SpecHeader == InitHeader /\ [][NextHeader]_vars

InitDigest == SpliceIdle /\ HeaderIdle /\ DigestInit /\ FileIdle
NextDigest == DigestRound \/ DigestReadErr
SpecDigest == InitDigest /\ [][NextDigest]_vars

Init == SpliceIdle /\ HeaderIdle /\ DigestIdle /\ FileInit
Next ==
    \/ \E i \in Procs : execute(i)
    \/ \E i \in Procs : parent_exists(i)
    \/ \E i \in Procs : create_dir_all(i)
    \/ \E i \in Procs : rename(i)
    \/ \E i \in Procs : read_dir(i)
    \/ \E i \in Procs : remove_dir(i)
    \/ \E i \in Procs : delete_file(i)
Spec == Init /\ [][Next]_vars

InitConc == SpliceIdle /\ HeaderIdle /\ DigestIdle /\ ConcInit
NextConc ==
    \/ \E i \in Procs : execute(i)
    \/ \E i \in Procs : parent_exists(i)
    \/ \E i \in Procs : create_dir_all(i)
    \/ \E i \in Procs : rename(i)
    \/ \E i \in Procs : read_dir(i)
    \/ \E i \in Procs : remove_dir(i)
SpecConc == InitConc /\ [][NextConc]_vars

(***************************************************************************)
(* Properties: splice_name, filename_from_header, digest                   *)
(***************************************************************************)
NoSeparator(s) == \A i \in 1..Len(s) : s[i] # "/"

SuffixText(k) ==
    CASE k = -12 -> <<"-", "1", "2">>
      [] k = 0   -> <<"0">>
      [] k = 2   -> <<"2">>
      [] k = 10  -> <<"1", "0">>
      [] k = 7   -> <<"7">>

\* Where the final extension of a file name starts: the last dot, when text
\* stands before it and the name is not "..".
ExtensionDots(name) ==
    {d \in 1..Len(name) :
        /\ name[d] = "."
        /\ \A j \in (d + 1)..Len(name) : name[j] # "."
        /\ d > 1
        /\ name # <<".", ".">>}

\* C6: for every file name (no path separator) and every suffix, splice_name
\* returns <base>_<suffix>.<ext>, split at the last dot only, when the name has
\* an extension, and <name>_<suffix> when it has none.
C6_SpliceName ==
    (sp_pc = "done" /\ NoSeparator(fname)) =>
        LET tag == <<"_">> \o SuffixText(suffix)
        IN  /\ \A d \in ExtensionDots(fname) :
                   spliced = SubSeq(fname, 1, d - 1) \o tag \o <<".">>
                                 \o SubSeq(fname, d + 1, Len(fname))
            /\ ExtensionDots(fname) = {} => spliced = fname \o tag

C6_Witness ==
    /\ sp_pc = "done"
    /\ fname = <<"a", ".", "b", ".", "b">>
    /\ suffix = 2
    /\ spliced = <<"a", ".", "b", "_", "2", ".", "b">>

Quote == "\""

\* C7: filename_from_header returns nothing when "filename=" is absent, else
\* the text 9 characters after its first occurrence without the double quotes
\* at both ends; it returns for every value, also when "filename=" ends it.
C7_FilenameFromHeader ==
    hd_pc = "done" =>
        LET h    == header_value
            hits == {i \in 1..Len(h) :
                        i + 8 <= Len(h) /\ \A j \in 1..9 : h[i + j - 1] = Needle[j]}
        IN  /\ hits = {} => hd_out = None
            /\ \A i \in hits :
                   (\A j \in hits : i <= j) =>
                       LET rest == SubSeq(h, i + 9, Len(h))
                       IN  /\ hd_out.some
                           /\ \E lo \in 1..(Len(rest) + 1), hi \in 0..Len(rest) :
                                  /\ hd_out.val = SubSeq(rest, lo, hi)
                                  /\ \A j \in 1..(lo - 1) : rest[j] = Quote
                                  /\ \A j \in (hi + 1)..Len(rest) : rest[j] = Quote
                                  /\ lo <= hi => rest[lo] # Quote /\ rest[hi] # Quote
                                  /\ lo > hi => \A j \in 1..Len(rest) : rest[j] = Quote

C7_Witness ==
    /\ hd_pc = "done"
    /\ header_value = <<";", " ">> \o Needle \o <<Quote, "t", Quote>>
    /\ hd_out = Some(<<"t">>)

\* A source whose reads are short only at the end of the stream.
ShortOnlyAtEnd(r) == r.kind = "full" \/ Len(r.data) <= ShortRead

\* C5: on a source that reads short only at end-of-stream, digest feeds the
\* hasher exactly the bytes of the source, once and in order, stops after
\* Len/1024 + 1 reads (an extra zero-length read on exact multiples), and
\* returns the hex encoding of the hash of those bytes.
C5_Digest ==
    ShortOnlyAtEnd(reader) =>
        LET len == Len(reader.data)
        IN  /\ fed = SubSeq(reader.data, 1, reader.pos)
            /\ d_pc = "loop" => reads <= len \div BUFFER_SIZE
            /\ (d_pc = "done" /\ d_result.ok) =>
                   /\ fed = reader.data
                   /\ reads = len \div BUFFER_SIZE + 1
                   /\ n = len % BUFFER_SIZE
                   /\ d_result.hex =
                          HexEncode(DFinalize(DUpdate(DDefault, reader.data)))
                   /\ Len(d_result.hex) = 4

C5_Witness ==
    /\ d_pc = "done"
    /\ d_result.ok
    /\ reader.kind = "full"
    /\ Len(reader.data) = 2 * BUFFER_SIZE
    /\ reads = 3
    /\ n = 0
    /\ fed = reader.data

(***************************************************************************)
(* Properties: FileAction::execute                                         *)
(***************************************************************************)
Entries(i) == {k \in 1..Len(trace) : trace[k].proc = i}

\* No call of i failed for a reason of the environment.
NoDenial(i) == \A k \in Entries(i) : trace[k].err # "EACCES"

NoFailure(i) == \A k \in Entries(i) : trace[k].ok

MovePcs == {"exists", "create_dir_all", "rename", "read_dir", "remove_dir"}

\* C1: with move_to set, execute takes the move path whatever delete is: it
\* never calls remove_file, never returns Deleted or Nothing, and returns Moved
\* when no filesystem call fails.
C1_MovePrecedence ==
    \A i \in Procs :
        calls[i].action.move_to.some =>
            /\ calls[i].pc \in MovePcs \cup {"start", "done", "panicked"}
            /\ \A k \in Entries(i) : trace[k].op # "remove_file"
            /\ calls[i].result.kind \notin {"Deleted", "Nothing"}
            /\ (calls[i].pc = "done" /\ NoFailure(i)) => calls[i].result.kind = "Moved"

C1_Witness ==
    /\ calls[1].pc = "done"
    /\ calls[1].action.move_to.some
    /\ calls[1].action.delete
    /\ calls[1].result.kind = "Moved"
    /\ Resolve(calls[1].file) \in fs0.files
    /\ Resolve(calls[1].file) \notin files

\* C3: with move_to absent and delete set, execute removes the file and
\* nothing else, directories included, and returns Deleted(file) for a file
\* that exists.
C3_Delete ==
    LET c == calls[1]
    IN  (~c.action.move_to.some /\ c.action.delete) =>
            /\ dirs = fs0.dirs
            /\ files \subseteq fs0.files
            /\ fs0.files \ files \subseteq {Resolve(c.file)}
            /\ (c.pc = "done" /\ Resolve(c.file) \in fs0.files /\ NoDenial(1)) =>
                   /\ c.result = Deleted(c.file)
                   /\ files = fs0.files \ {Resolve(c.file)}
            /\ c.result.kind = "Deleted" => Resolve(c.file) \notin files

C3_Witness ==
    LET c == calls[1]
    IN  /\ c.pc = "done"
        /\ ~c.action.move_to.some
        /\ c.result = Deleted(c.file)
        /\ Resolve(c.file) = <<"w", "a", "f">>
        /\ <<"w", "a">> \in dirs
        /\ Children(<<"w", "a">>) = {}

\* C4: with move_to absent and delete unset, execute makes no filesystem call,
\* leaves files and directories as they were and returns Nothing.
C4_Nothing ==
    LET c == calls[1]
    IN  (~c.action.move_to.some /\ ~c.action.delete) =>
            /\ dirs = fs0.dirs
            /\ files = fs0.files
            /\ trace = <<>>
            /\ c.pc \in {"start", "done"}
            /\ c.pc = "done" => c.result = Nothing

C4_Witness ==
    LET c == calls[1]
    IN  /\ c.pc = "done"
        /\ ~c.action.move_to.some
        /\ ~c.action.delete
        /\ c.root.some
        /\ c.result = Nothing
        /\ Resolve(c.file) \in files

FallibleOps == {"create_dir_all", "rename", "read_dir", "remove_dir", "remove_file"}

UnderRoot(file, root) ==
    /\ root.abs = file.abs
    /\ IsPrefix(root.comps, file.comps)
    /\ root.comps # file.comps

\* The destination of a move as the specification words it.
Destination(c) ==
    LET to == c.action.move_to.val
    IN  IF c.root.some
        THEN [abs |-> to.abs,
              comps |-> to.comps
                  \o SubSeq(c.file.comps, Len(c.root.val.comps) + 1, Len(c.file.comps))]
        ELSE [abs |-> to.abs, comps |-> Append(to.comps, Last(c.file.comps))]

\* Nothing stood in the way of the destination when the call began.
DestinationFree(c) ==
    /\ \A a \in Prefixes(Front(Resolve(Destination(c)))) : a \notin fs0.files
    /\ Resolve(Destination(c)) \notin fs0.dirs

\* A move of an existing regular file to another place, in an environment that
\* denies nothing.
MoveCase(i) ==
    LET c == calls[i]
    IN  /\ c.pc \in {"done", "panicked"}
        /\ c.action.move_to.some
        /\ Resolve(c.file) \in fs0.files
        /\ c.root.some => UnderRoot(c.file, c.root.val)
        /\ DestinationFree(c)
        /\ Resolve(Destination(c)) # Resolve(c.file)
        /\ NoDenial(i)

MoveDone(i) ==
    LET c == calls[i]
    IN  /\ c.result = Moved(Destination(c))
        /\ Resolve(Destination(c)) \in files
        /\ Resolve(c.file) \notin files

\* C2: a move of an existing regular file, given by an absolute or a relative
\* path, ends with the file at move_to joined with its path relative to root
\* (or with its base name, without a root), gone from its original path, and
\* returns Moved(destination).
C2_MoveDestination == MoveCase(1) => MoveDone(1)

\* The same for the files whose path has a directory part.
MoveWithDirectoryPart ==
    (MoveCase(1) /\ ~IsEmptyPath(Parent(calls[1].file).val)) => MoveDone(1)

RenameEntries(i) == {k \in Entries(i) : trace[k].op = "rename" /\ trace[k].ok}

Below(d, snap) == {e \in snap.dirs \cup snap.files : Len(e) > Len(d) /\ IsPrefix(d, e)}

\* After the rename of a move: the original parent directory is gone exactly
\* when the rename left it empty, and nothing else has changed.
CleanupDone(i) ==
    LET c      == calls[i]
        parent == Front(Resolve(c.file))
    IN  \A k \in RenameEntries(i) :
            /\ parent \notin dirs <=> Below(parent, trace[k].after) = {}
            /\ trace[k].after.dirs \ dirs \subseteq {parent}
            /\ dirs \subseteq trace[k].after.dirs
            /\ files = trace[k].after.files

CleanupCase(i) ==
    /\ calls[i].pc = "done"
    /\ calls[i].action.move_to.some
    /\ Resolve(calls[i].file) \in fs0.files
    /\ NoDenial(i)

\* C8: after the rename of a move the file's original parent directory is
\* removed exactly when it is empty; no other directory is removed and the
\* entries that remain are untouched.
C8_ParentCleanup == CleanupCase(1) => CleanupDone(1)

\* The same for the files whose path has a directory part.
CleanupWithDirectoryPart ==
    (CleanupCase(1) /\ ~IsEmptyPath(Parent(calls[1].file).val)) => CleanupDone(1)

RaceCase ==
    /\ \A i \in Procs : calls[i].pc = "done"
    /\ \A i \in Procs : NoDenial(i)
    /\ \A i \in Procs : calls[i].root.some => UnderRoot(calls[i].file, calls[i].root.val)

RaceBenign ==
    LET parent == Front(Resolve(calls[1].file))
    IN  /\ \A i \in Procs : Resolve(Destination(calls[i])) \in files
        /\ \A i \in Procs : Resolve(calls[i].file) \notin files
        /\ ~(parent \in dirs /\ Children(parent) = {})
        /\ parent \notin dirs => Below(parent, Snapshot(dirs, files)) = {}
        /\ \A i \in Procs :
               calls[i].result.kind = "Err" =>
                   /\ calls[i].result.err = "ENOENT"
                   /\ parent \notin dirs
        /\ \A i \in Procs : calls[i].result.kind \in {"Err", "Moved"}

\* C10: two calls moving two files out of one directory: in every interleaving
\* both files reach their destinations, the directory is removed exactly when
\* it is empty, and a call fails only because the directory is gone.
C10_BenignRace == RaceCase => RaceBenign

\* The same for the files whose path has a directory part.
RaceWithDirectoryPart ==
    (RaceCase /\ \A i \in Procs : ~IsEmptyPath(Parent(calls[i].file).val)) => RaceBenign

=============================================================================
